---- MODULE Spec2Model ----
(***************************************************************************)
(* The crawl orchestration of play-scraper: the ledger of named sets       *)
(* (stats), its durable mirror (one text file per set, one json file per   *)
(* app), and the two runners: the sequential one (src/google-scraper.py)   *)
(* and the threaded one (src/google_scraper.py).                           *)
(***************************************************************************)
EXTENDS Integers, Sequences, FiniteSets, TLC

\* ------------------------------------------------------------------ bounds
MaxRuns == 1        \* restarts of the process (kills and reruns) after the first run
MaxFails == 1       \* external calls that raise, or details omitted by the batch fetch
MaxWriteFails == 1  \* durable writes that raise

\* ------------------------------------------------------------- identifiers
NL == "\n"
DETAILS == "details-checked"
DEV_PENDING == "developers-not-checked"
DEV_DONE == "developers-checked"
SIM_DONE == "similars-checked"
SIM_PENDING == "similars-not-checked"
CAT_DONE == "categories-checked"
Kinds == {DETAILS, DEV_PENDING, DEV_DONE, SIM_DONE, SIM_PENDING, CAT_DONE}

Runners == {"seq", "thr"}        \* google-scraper.py, google_scraper.py
Catalogues == {"chain", "scenario"}
Cats == {"G", "H"}
Apps == {"a", "b", "c"}
Devs == {"d"}
Keys == Cats \cup Apps \cup Devs \cup {""}  \* what a task can be started for

\* ---------------------------------------------------------------- catalogue
\* The external collaborator's answers (when the call does not raise).
categories(cg) == IF cg = "chain" THEN <<"G", "H">> ELSE <<"G">>

category_items(cg, c) ==
    IF cg = "chain" THEN (IF c = "G" THEN <<"a", "a">> ELSE <<"a">>) ELSE <<>>

category_clusters(cg, c) == IF c = "G" THEN <<"k">> ELSE <<>>

cluster_items(cg, k) == IF cg = "chain" THEN <<"a">> ELSE <<"a", "b">>

similar(cg, x) ==
    IF cg = "chain"
    THEN CASE x = "a" -> <<"b">> [] x = "b" -> <<"c">> [] x = "c" -> <<"a">> [] OTHER -> <<>>
    ELSE CASE x = "a" -> <<"c">> [] OTHER -> <<>>

developer_id(x) == IF x = "b" THEN "" ELSE "d"

\* scraper.developer(developer=d, results=120, detailed=True): the apps of d
developer(cg, d) == IF d = "d" THEN <<"a", "c">> ELSE <<>>

\* ------------------------------------------------------------ file format
RECURSIVE SetToSeq(_)
\* the elements of a set in the order the set iterates them (one fixed order)
SetToSeq(S) ==
    IF S = {} THEN <<>>
    ELSE LET x == CHOOSE y \in S : TRUE IN <<x>> \o SetToSeq(S \ {x})

RECURSIVE Join(_)
\* '\n'.join(seq): the chunks written to the file
Join(seq) ==
    IF Len(seq) = 0 THEN <<>>
    ELSE IF Len(seq) = 1 THEN <<seq[1]>>
    ELSE <<seq[1], NL>> \o Join(Tail(seq))

RECURSIVE SplitFrom(_, _)
\* str.split('\n') of the chunks `text`, with `cur` the piece being read
SplitFrom(text, cur) ==
    IF Len(text) = 0 THEN <<cur>>
    ELSE IF Head(text) = NL THEN <<cur>> \o SplitFrom(Tail(text), "")
    ELSE SplitFrom(Tail(text), cur \o Head(text))

Split(text) == SplitFrom(text, "")

Range(seq) == {seq[i] : i \in 1..Len(seq)}

\* set(d.read().split('\n'))
ParseSet(text) == Range(Split(text))

\* a filter that keeps every id, known or not
FilterNothing(seq, known) == seq

\* [i for i in app_ids if i not in known]
RECURSIVE FilterNotIn(_, _)
FilterNotIn(seq, known) ==
    IF Len(seq) = 0 THEN <<>>
    ELSE IF Head(seq) \in known THEN FilterNotIn(Tail(seq), known)
    ELSE <<Head(seq)>> \o FilterNotIn(Tail(seq), known)

\* a sequence without its i-th element
DropAt(seq, i) == SubSeq(seq, 1, i - 1) \o SubSeq(seq, i + 1, Len(seq))


\* -------------------------------------------------------------------- state
VARIABLES
    runner,     \* which entry point is running
    catalogue,  \* which catalogue the external collaborator serves
    stats,      \* the in-memory named sets
    files,      \* stats/<kind>.txt: the chunks written, in order
    present,    \* the kinds whose file exists
    apps,       \* the ids with an apps/<id>.json on disk
    lock,       \* stats_lock: "free" or the thread that acquired it
    main,       \* the main thread: position and locals
    task,       \* per key, the task (a pool future, or the inline call) working on it
    runs,       \* restarts so far
    fails,      \* external failures so far
    wfails,     \* durable write failures so far
    h           \* history: what has happened, for stating the properties

vars == <<runner, catalogue, stats, files, present, apps, lock, main, task, runs, fails, wfails, h>>

IdleTask == [pc |-> "idle", ph |-> 0, todo |-> <<>>, cl |-> <<>>, ret |-> "fin"]

StartMain ==
    [pc |-> "start", ph |-> 0, cur |-> "", kind |-> "", idx |-> 1,
     left |-> {}, size |-> 0, sub |-> {}, coll |-> {}]

\* History. Per run: simCalls (ids whose similar list was asked for), simRaised (ids
\* whose similar call raised), catRaised (categories with a listing call that raised),
\* pend0/det0 (similar-pending and details-known when the similar stage began),
\* simStarted (get_similar_apps was entered), stored (ids whose save_app_details
\* returned), dispatched/redispatched (ids a similar task was started for, once/again).
\* devListed/devRaised (developers whose listing call returned/raised), devRouted
\* (developers whose every listed app went through save_app_details).
\* Across runs: routed (categories whose every list went through detail-fetch),
\* refetch/rewrite (ids fetched/written while already in details-known), attempted
\* and returned (per kind, the ids set_stat was called with, and returned for),
\* pendAtKill/doneAtKill (the similar sets in memory at the last kill), crashed.
StartHist ==
    [simCalls |-> {}, simRaised |-> {}, catRaised |-> {}, pend0 |-> {}, det0 |-> {},
     simStarted |-> FALSE, stored |-> {}, dispatched |-> {}, redispatched |-> {},
     devListed |-> {}, devRaised |-> {}, devRouted |-> {},
     routed |-> {}, refetch |-> {}, rewrite |-> {},
     attempted |-> [k \in Kinds |-> {}], returned |-> [k \in Kinds |-> {}],
     pendAtKill |-> {}, doneAtKill |-> {}, crashed |-> FALSE]

EmptyStats == [k \in Kinds |-> {}]

Init ==
    /\ runner \in Runners
    /\ catalogue \in Catalogues
    /\ stats = EmptyStats
    /\ files = [k \in Kinds |-> <<>>]
    /\ present = {}
    /\ apps = {}
    /\ lock = "free"
    /\ main = StartMain
    /\ task = [k \in Keys |-> IdleTask]
    /\ runs = 0
    /\ fails = 0
    /\ wfails = 0
    /\ h = StartHist

\* ------------------------------------------------------------ ledger store
\* The store as a value, with the outcome of the step just taken:
\* "ret" the call returned, "exc" it raised, "mid" it is between its two steps.
Store == [stats |-> stats, files |-> files, present |-> present, lock |-> lock, res |-> "ret"]

Commit(r) ==
    /\ stats' = r.stats
    /\ files' = r.files
    /\ present' = r.present
    /\ lock' = r.lock

\* load_stats: a file that cannot be opened leaves the set as it is
load_stats(st) ==
    [st EXCEPT !.stats = [k \in Kinds |->
        IF k \in st.present THEN ParseSet(st.files[k]) ELSE st.stats[k]]]

\* set_stat of google-scraper.py: append to the log, then add in memory.
\* ph = 0: the call begins; ph = 1: the file is closed, the id not yet added.
set_stat_seq(st, who, kind, info, ph, fail) ==
    IF ph = 0
    THEN IF info \in st.stats[kind] THEN [st EXCEPT !.res = "ret"]
         ELSE IF fail = "open" THEN [st EXCEPT !.res = "exc"]
         ELSE IF fail = "write"
              THEN [st EXCEPT !.present = @ \cup {kind}, !.res = "exc"]
         ELSE [st EXCEPT !.files[kind] = @ \o <<info, NL>>,
                         !.present = @ \cup {kind}, !.res = "mid"]
    ELSE [st EXCEPT !.stats[kind] = @ \cup {info}, !.res = "ret"]

\* set_stat of google_scraper.py: acquire, add in memory, rewrite the file, release.
\* ph = 0: the call begins; ph = 1: the file is open (truncated), nothing written yet.
set_stat_thr(st, who, kind, info, ph, fail) ==
    IF ph = 0
    THEN IF info \in st.stats[kind] THEN [st EXCEPT !.res = "ret"]
         ELSE LET held == [st EXCEPT !.lock = who, !.stats[kind] = @ \cup {info}]
              IN  IF fail = "open" THEN [held EXCEPT !.res = "exc"]
                  ELSE [held EXCEPT !.files[kind] = <<>>,
                                    !.present = @ \cup {kind}, !.res = "mid"]
    ELSE IF fail = "write" THEN [st EXCEPT !.res = "exc"]
         ELSE [st EXCEPT !.files[kind] = Join(SetToSeq(st.stats[kind])),
                         !.lock = "free", !.res = "ret"]

set_stat(st, who, kind, info, ph, fail) ==
    IF runner = "thr" THEN set_stat_thr(st, who, kind, info, ph, fail)
    ELSE set_stat_seq(st, who, kind, info, ph, fail)

\* stats_lock.acquire() blocks while the lock is held (only the threaded runner locks)
CanStep(kind, info, ph) ==
    (runner = "thr" /\ ph = 0 /\ info \notin stats[kind]) => lock = "free"

\* the ways the durable write of this step can fail
WriteFails(kind, info, ph) ==
    IF wfails >= MaxWriteFails \/ (ph = 0 /\ info \in stats[kind]) THEN {"none"}
    ELSE IF runner = "seq" THEN (IF ph = 0 THEN {"none", "open", "write"} ELSE {"none"})
    ELSE (IF ph = 0 THEN {"none", "open"} ELSE {"none", "write"})


\* one step of a set_stat call; `r` is the store after the step, `saved` the ids
\* whose save_app_details returns with this step
StoreStepSaved(r, kind, info, fail, saved) ==
    /\ Commit(r)
    /\ wfails' = IF fail = "none" THEN wfails ELSE wfails + 1
    /\ h' = [h EXCEPT !.attempted[kind] = @ \cup {info},
                      !.returned[kind] = IF r.res = "ret" THEN @ \cup {info} ELSE @,
                      !.stored = @ \cup saved]

\* one step of a set_stat call outside save_app_details
StoreStep(r, kind, info, fail) == StoreStepSaved(r, kind, info, fail, {})

\* -------------------------------------------------------------------- tasks
\* An exception in get_category_apps ends the task with the exception (the future
\* holds it; the sequential runner lets it propagate), and so does one in
\* get_and_save_developer_apps. get_and_save_similar catches every exception and
\* returns.
AfterRaise(k) == IF k \in Cats \cup Devs THEN "exc" ELSE "fin"

\* get_category_apps up to the filter of get_and_save_app_details(category_items)
TaskCatItems(c) ==
    /\ task[c].pc = "cat_items"
    /\ UNCHANGED <<runner, catalogue, stats, files, present, apps, lock, main, runs, wfails>>
    /\ IF c \in stats[CAT_DONE]
       THEN /\ task' = [task EXCEPT ![c].pc = "fin"]
            /\ UNCHANGED <<fails, h>>
       ELSE \/ /\ task' = [task EXCEPT ![c] = [@ EXCEPT
                      !.pc = "fetch", !.ret = "cat_clusters",
                      !.todo = FilterNotIn(category_items(catalogue, c), stats[DETAILS])]]
               /\ UNCHANGED <<fails, h>>
            \/ /\ fails < MaxFails
               /\ fails' = fails + 1
               /\ task' = [task EXCEPT ![c].pc = AfterRaise(c)]
               /\ h' = [h EXCEPT !.catRaised = @ \cup {c}]

\* category_clusters(category)
TaskCatClusters(c) ==
    /\ task[c].pc = "cat_clusters"
    /\ UNCHANGED <<runner, catalogue, stats, files, present, apps, lock, main, runs, wfails>>
    /\ \/ /\ task' = [task EXCEPT ![c] = [@ EXCEPT
                 !.pc = "cat_cluster", !.cl = category_clusters(catalogue, c)]]
          /\ UNCHANGED <<fails, h>>
       \/ /\ fails < MaxFails
          /\ fails' = fails + 1
          /\ task' = [task EXCEPT ![c].pc = AfterRaise(c)]
          /\ h' = [h EXCEPT !.catRaised = @ \cup {c}]

\* the loop over the clusters: cluster_items of the next one and the filter, or the
\* end of the loop
TaskCatCluster(c) ==
    /\ task[c].pc = "cat_cluster"
    /\ UNCHANGED <<runner, catalogue, stats, files, present, apps, lock, main, runs, wfails>>
    /\ IF task[c].cl = <<>>
       THEN /\ task' = [task EXCEPT ![c] = [@ EXCEPT !.pc = "cat_mark", !.ph = 0]]
            /\ h' = [h EXCEPT !.routed = @ \cup {c}]
            /\ UNCHANGED fails
       ELSE \/ /\ task' = [task EXCEPT ![c] = [@ EXCEPT
                      !.pc = "fetch", !.ret = "cat_cluster", !.cl = Tail(@),
                      !.todo = FilterNotIn(cluster_items(catalogue, Head(task[c].cl)),
                                           stats[DETAILS])]]
               /\ UNCHANGED <<fails, h>>
            \/ /\ fails < MaxFails
               /\ fails' = fails + 1
               /\ task' = [task EXCEPT ![c].pc = AfterRaise(c)]
               /\ h' = [h EXCEPT !.catRaised = @ \cup {c}]

\* get_and_save_similar up to the filter of get_and_save_app_details
TaskSimCall(x) ==
    /\ task[x].pc = "sim_call"
    /\ UNCHANGED <<runner, catalogue, stats, files, present, apps, lock, main, runs, wfails>>
    /\ \/ /\ task' = [task EXCEPT ![x] = [@ EXCEPT
                 !.pc = "fetch", !.ret = "fin",
                 !.todo = FilterNotIn(FilterNotIn(similar(catalogue, x), stats[DETAILS]),
                                      stats[DETAILS])]]
          /\ h' = [h EXCEPT !.simCalls = @ \cup {x}]
          /\ UNCHANGED fails
       \/ /\ fails < MaxFails
          /\ fails' = fails + 1
          /\ task' = [task EXCEPT ![x].pc = AfterRaise(x)]
          /\ h' = [h EXCEPT !.simCalls = @ \cup {x}, !.simRaised = @ \cup {x}]

\* multi_futures_app_request(not_exists): best effort, a detail may be missing
TaskFetch(k) ==
    /\ task[k].pc = "fetch"
    /\ UNCHANGED <<runner, catalogue, stats, files, present, apps, lock, main, runs, wfails>>
    /\ \E drop \in 0..Len(task[k].todo) :
        LET got == IF drop = 0 THEN task[k].todo ELSE DropAt(task[k].todo, drop)
        IN  /\ drop > 0 => fails < MaxFails
            /\ fails' = IF drop > 0 THEN fails + 1 ELSE fails
            /\ task' = [task EXCEPT ![k] = [@ EXCEPT
                   !.todo = got,
                   !.pc = IF got = <<>> THEN task[k].ret ELSE "save_file"]]
            /\ h' = [h EXCEPT !.refetch = @ \cup (Range(task[k].todo) \cap stats[DETAILS])]

\* save_app_details: the write of apps/<id>.json
TaskSaveFile(k) ==
    /\ task[k].pc = "save_file"
    /\ UNCHANGED <<runner, catalogue, stats, files, present, lock, main, runs, fails>>
    /\ \/ /\ apps' = apps \cup {Head(task[k].todo)}
          /\ task' = [task EXCEPT ![k] = [@ EXCEPT !.pc = "save_det", !.ph = 0]]
          /\ h' = [h EXCEPT !.rewrite = @ \cup ({Head(task[k].todo)} \cap stats[DETAILS])]
          /\ UNCHANGED wfails
       \/ /\ wfails < MaxWriteFails
          /\ wfails' = wfails + 1
          /\ task' = [task EXCEPT ![k].pc = AfterRaise(k)]
          /\ UNCHANGED <<apps, h>>

\* get_and_save_developer_apps after its set_stat: scraper.developer(...), whose
\* details all go to save_app_details
TaskDevList(d) ==
    /\ task[d].pc = "dev_list"
    /\ UNCHANGED <<runner, catalogue, stats, files, present, apps, lock, main, runs, wfails>>
    /\ \/ /\ task' = [task EXCEPT ![d] = [@ EXCEPT
                 !.todo = developer(catalogue, d), !.ret = "fin",
                 !.pc = IF developer(catalogue, d) = <<>> THEN "fin" ELSE "save_file"]]
          /\ h' = [h EXCEPT !.devListed = @ \cup {d}]
          /\ UNCHANGED fails
       \/ /\ fails < MaxFails
          /\ fails' = fails + 1
          /\ task' = [task EXCEPT ![d].pc = AfterRaise(d)]
          /\ h' = [h EXCEPT !.devRaised = @ \cup {d}]

\* the set_stat calls of a task: the three of set_new_app_stats, the one that ends
\* get_category_apps, and the one that begins get_and_save_developer_apps
TaskSetStat(k) ==
    LET t == task[k]
        x == Head(t.todo)
        kind == CASE t.pc = "save_det" -> DETAILS
                  [] t.pc = "save_sim" -> SIM_PENDING
                  [] t.pc = "save_dev" -> DEV_PENDING
                  [] t.pc = "dev_mark" -> DEV_DONE
                  [] OTHER -> CAT_DONE
        info == CASE t.pc = "save_dev" -> developer_id(x)
                  [] t.pc \in {"cat_mark", "dev_mark"} -> k
                  [] OTHER -> x
        skip == /\ t.ph = 0
                /\ \/ t.pc = "save_sim" /\ x \in stats[SIM_DONE]
                   \/ t.pc = "save_dev" /\ (info \in stats[DEV_DONE] \/ info = "")
        rest == Tail(t.todo)
        saved == IF t.pc = "save_dev" THEN {x} ELSE {}
        next == CASE t.pc = "save_det" -> [t EXCEPT !.pc = "save_sim", !.ph = 0]
                  [] t.pc = "save_sim" -> [t EXCEPT !.pc = "save_dev", !.ph = 0]
                  [] t.pc = "save_dev" -> [t EXCEPT !.todo = rest, !.ph = 0,
                         !.pc = IF rest = <<>> THEN t.ret ELSE "save_file"]
                  [] t.pc = "dev_mark" -> [t EXCEPT !.pc = "dev_list", !.ph = 0]
                  [] OTHER -> [t EXCEPT !.pc = "fin", !.ph = 0]
    IN  /\ t.pc \in {"save_det", "save_sim", "save_dev", "cat_mark", "dev_mark"}
        /\ UNCHANGED <<runner, catalogue, apps, main, runs, fails>>
        /\ IF skip
           THEN /\ task' = [task EXCEPT ![k] = next]
                /\ h' = [h EXCEPT !.stored = @ \cup saved]
                /\ UNCHANGED <<stats, files, present, lock, wfails>>
           ELSE /\ CanStep(kind, info, t.ph)
                /\ \E fail \in WriteFails(kind, info, t.ph) :
                    LET r == set_stat(Store, k, kind, info, t.ph, fail)
                    IN  /\ StoreStepSaved(r, kind, info, fail,
                                          IF r.res = "ret" THEN saved ELSE {})
                        /\ task' = [task EXCEPT ![k] =
                               CASE r.res = "mid" -> [t EXCEPT !.ph = 1]
                                 [] r.res = "exc" -> [t EXCEPT !.pc = AfterRaise(k), !.ph = 0]
                                 [] OTHER -> next]


\* --------------------------------------------------------------- main thread
StartTask(pc) == [IdleTask EXCEPT !.pc = pc]

Finished(k) == task[k].pc \in {"fin", "exc"}

\* main: load_stats()
MainLoad ==
    /\ main.pc = "start"
    /\ Commit(load_stats(Store))
    /\ main' = [main EXCEPT !.pc = "cat_list"]
    /\ UNCHANGED <<runner, catalogue, apps, task, runs, fails, wfails, h>>

\* get_categories_apps: scraper.categories(); the threaded runner then submits one
\* get_category_apps per category, the sequential one starts its loop
MainCategories ==
    /\ main.pc = "cat_list"
    /\ UNCHANGED <<runner, catalogue, stats, files, present, apps, lock, runs, wfails, h>>
    /\ \/ /\ fails < MaxFails
          /\ fails' = fails + 1
          /\ main' = [main EXCEPT !.pc = "aborted"]
          /\ UNCHANGED task
       \/ /\ UNCHANGED fails
          /\ IF runner = "thr"
             THEN /\ task' = [k \in Keys |->
                         IF k \in Range(categories(catalogue))
                         THEN StartTask("cat_items") ELSE task[k]]
                  /\ main' = [main EXCEPT !.pc = "cat_collect", !.coll = {},
                                          !.sub = Range(categories(catalogue))]
             ELSE /\ main' = [main EXCEPT !.pc = "cat_loop", !.idx = 1]
                  /\ UNCHANGED task

\* where the similar stage begins: get_similar_apps()
EnterSimilar(m) == [m EXCEPT !.pc = "sim_while", !.sub = {}, !.coll = {}]

MarkStage ==
    [h EXCEPT !.pend0 = stats[SIM_PENDING], !.det0 = stats[DETAILS], !.simStarted = TRUE]

\* google-scraper.py get_categories_apps: the next category of the loop, inline
MainCatLoop ==
    /\ runner = "seq"
    /\ main.pc = "cat_loop"
    /\ UNCHANGED <<runner, catalogue, stats, files, present, apps, lock, runs, fails, wfails>>
    /\ IF main.idx > Len(categories(catalogue))
       THEN /\ main' = EnterSimilar(main)
            /\ h' = MarkStage
            /\ UNCHANGED task
       ELSE /\ main' = [main EXCEPT !.pc = "cat_wait", !.cur = categories(catalogue)[main.idx]]
            /\ task' = [task EXCEPT ![categories(catalogue)[main.idx]] = StartTask("cat_items")]
            /\ UNCHANGED h

\* google-scraper.py get_categories_apps: the category's body returned or raised
MainCatWait ==
    /\ runner = "seq"
    /\ main.pc = "cat_wait"
    /\ Finished(main.cur)
    /\ main' = IF task[main.cur].pc = "exc"
               THEN [main EXCEPT !.pc = "aborted"]
               ELSE [main EXCEPT !.pc = "cat_loop", !.idx = @ + 1]
    /\ UNCHANGED <<runner, catalogue, stats, files, present, apps, lock, task, runs, fails, wfails, h>>

\* a category stage that returns without waiting for its futures
MainCatCollectNoWait ==
    /\ runner = "thr"
    /\ main.pc = "cat_collect"
    /\ main' = EnterSimilar(main)
    /\ h' = MarkStage
    /\ UNCHANGED <<runner, catalogue, stats, files, present, apps, lock, task, runs, fails, wfails>>

\* google_scraper.py get_categories_apps: as_completed yields a finished future, or
\* the loop and the pool end
MainCatCollect ==
    /\ runner = "thr"
    /\ main.pc = "cat_collect"
    /\ UNCHANGED <<runner, catalogue, stats, files, present, apps, lock, task, runs, fails, wfails>>
    /\ IF main.sub \subseteq main.coll
       THEN /\ main' = EnterSimilar(main)
            /\ h' = MarkStage
       ELSE /\ \E c \in main.sub \ main.coll :
                /\ Finished(c)
                /\ main' = [main EXCEPT !.pc = "cat_mark", !.cur = c, !.ph = 0]
            /\ UNCHANGED h

\* history of a similar task started for x
Dispatch(x) ==
    [h EXCEPT !.dispatched = @ \cup {x},
              !.redispatched = IF x \in h.dispatched THEN @ \cup {x} ELSE @]

\* get_similar_apps: the while test; the sequential runner pops an id and expands it
\* inline, the threaded one opens a pool and starts iterating the live set
MainSimWhile ==
    /\ main.pc = "sim_while"
    /\ UNCHANGED <<runner, catalogue, files, present, apps, lock, runs, fails, wfails>>
    /\ IF stats[SIM_PENDING] = {}
       THEN /\ main' = [main EXCEPT !.pc = "done"]
            /\ UNCHANGED <<stats, task, h>>
       ELSE IF runner = "seq"
       THEN \E x \in stats[SIM_PENDING] :
               /\ stats' = [stats EXCEPT ![SIM_PENDING] = @ \ {x}]
               /\ IF x = ""
                  THEN UNCHANGED <<main, task, h>>
                  ELSE /\ main' = [main EXCEPT !.pc = "sim_wait", !.cur = x]
                       /\ task' = [task EXCEPT ![x] = StartTask("sim_call")]
                       /\ h' = Dispatch(x)
       ELSE /\ main' = [main EXCEPT !.pc = "sim_submit", !.left = stats[SIM_PENDING],
                           !.size = Cardinality(stats[SIM_PENDING]),
                           !.sub = {}, !.coll = {}]
            /\ UNCHANGED <<stats, task, h>>

\* google-scraper.py get_similar_apps: get_and_save_similar returned
MainSimWait ==
    /\ runner = "seq"
    /\ main.pc = "sim_wait"
    /\ Finished(main.cur)
    /\ main' = [main EXCEPT !.pc = "sim_mark", !.ph = 0]
    /\ UNCHANGED <<runner, catalogue, stats, files, present, apps, lock, task, runs, fails, wfails, h>>

\* google_scraper.py get_similar_apps: one step of the iteration over
\* stats['similars-not-checked'] that builds future_to_app_id. The set iterator
\* raises RuntimeError when the set's size is not what it was when the iteration began.
MainSimSubmit ==
    /\ runner = "thr"
    /\ main.pc = "sim_submit"
    /\ UNCHANGED <<runner, catalogue, stats, files, present, apps, lock, runs, fails, wfails>>
    /\ IF Cardinality(stats[SIM_PENDING]) # main.size
       THEN /\ main' = [main EXCEPT !.pc = "sim_abort"]
            /\ UNCHANGED <<task, h>>
       ELSE IF main.left = {}
       THEN /\ main' = [main EXCEPT !.pc = "sim_collect"]
            /\ UNCHANGED <<task, h>>
       ELSE \E x \in main.left :
               /\ main' = [main EXCEPT !.left = @ \ {x}, !.sub = @ \cup {x}]
               /\ task' = [task EXCEPT ![x] = StartTask("sim_call")]
               /\ h' = Dispatch(x)

\* the pool's __exit__ waits for the submitted tasks, then the RuntimeError leaves main
MainSimAbort ==
    /\ runner = "thr"
    /\ main.pc = "sim_abort"
    /\ \A k \in main.sub : Finished(k)
    /\ main' = [main EXCEPT !.pc = "aborted"]
    /\ UNCHANGED <<runner, catalogue, stats, files, present, apps, lock, task, runs, fails, wfails, h>>

\* google_scraper.py get_similar_apps: as_completed yields a finished future, or the
\* loop and the pool end
MainSimCollect ==
    /\ runner = "thr"
    /\ main.pc = "sim_collect"
    /\ UNCHANGED <<runner, catalogue, stats, files, present, apps, lock, task, runs, fails, wfails, h>>
    /\ IF main.sub \subseteq main.coll
       THEN main' = [main EXCEPT !.pc = "sim_while"]
       ELSE \E x \in main.sub \ main.coll :
               /\ Finished(x)
               /\ main' = [main EXCEPT !.pc = "sim_mark", !.cur = x, !.ph = 0]

\* the set_stat calls of the main thread: set_stat('categories-checked', category)
\* of the threaded as_completed loop, and set_stat('similars-checked', app_id)
MainSetStat ==
    LET kind == IF main.pc = "cat_mark" THEN CAT_DONE ELSE SIM_DONE
        info == main.cur
        collected == [main EXCEPT !.pc = IF main.pc = "cat_mark" THEN "cat_collect"
                                         ELSE "sim_collect",
                                  !.coll = @ \cup {info}, !.ph = 0]
    IN  /\ main.pc \in {"cat_mark", "sim_mark"}
        /\ UNCHANGED <<runner, catalogue, apps, task, runs, fails>>
        /\ CanStep(kind, info, main.ph)
        /\ \E fail \in WriteFails(kind, info, main.ph) :
            LET r == set_stat(Store, "main", kind, info, main.ph, fail)
            IN  /\ StoreStep(r, kind, info, fail)
                /\ main' =
                     CASE r.res = "mid" -> [main EXCEPT !.ph = 1]
                       [] r.res = "exc" ->
                            IF runner = "thr" THEN collected
                            ELSE [main EXCEPT !.pc = "aborted", !.ph = 0]
                       [] OTHER ->
                            IF main.pc = "cat_mark" THEN collected
                            ELSE IF runner = "thr"
                            THEN [main EXCEPT !.pc = "sim_remove", !.ph = 0]
                            ELSE [main EXCEPT !.pc = "sim_while", !.ph = 0]

\* google_scraper.py get_similar_apps: stats['similars-not-checked'].remove(app_id);
\* a KeyError is caught by the except of the loop
MainSimRemove ==
    /\ runner = "thr"
    /\ main.pc = "sim_remove"
    /\ stats' = [stats EXCEPT ![SIM_PENDING] = @ \ {main.cur}]
    /\ main' = [main EXCEPT !.pc = "sim_collect", !.coll = @ \cup {main.cur}]
    /\ UNCHANGED <<runner, catalogue, files, present, apps, lock, task, runs, fails, wfails, h>>

\* get_developers_apps(), the call that main() has commented out, made when the
\* other stages have returned
MainDevelopers ==
    /\ main.pc = "done"
    /\ main' = [main EXCEPT !.pc = "dev_while"]
    /\ UNCHANGED <<runner, catalogue, stats, files, present, apps, lock, task, runs, fails, wfails, h>>

\* get_developers_apps: the while test, the pop, and the call for a non-empty id
MainDevWhile ==
    /\ main.pc = "dev_while"
    /\ UNCHANGED <<runner, catalogue, files, present, apps, lock, runs, fails, wfails, h>>
    /\ IF stats[DEV_PENDING] = {}
       THEN /\ main' = [main EXCEPT !.pc = "dev_done"]
            /\ UNCHANGED <<stats, task>>
       ELSE \E d \in stats[DEV_PENDING] :
               /\ stats' = [stats EXCEPT ![DEV_PENDING] = @ \ {d}]
               /\ IF d = ""
                  THEN UNCHANGED <<main, task>>
                  ELSE /\ main' = [main EXCEPT !.pc = "dev_wait", !.cur = d]
                       /\ task' = [task EXCEPT ![d] = StartTask("dev_mark")]

\* get_developers_apps: get_and_save_developer_apps returned or raised
MainDevWait ==
    /\ main.pc = "dev_wait"
    /\ Finished(main.cur)
    /\ main' = IF task[main.cur].pc = "exc"
               THEN [main EXCEPT !.pc = "aborted"]
               ELSE [main EXCEPT !.pc = "dev_while"]
    /\ h' = IF task[main.cur].pc = "fin" /\ main.cur \in h.devListed
            THEN [h EXCEPT !.devRouted = @ \cup {main.cur}] ELSE h
    /\ UNCHANGED <<runner, catalogue, stats, files, present, apps, lock, task, runs, fails, wfails>>

\* ------------------------------------------------------------- the process
\* what a new process starts with: empty sets, a free lock, no task
Restarted(crash) ==
    /\ runs < MaxRuns
    /\ runs' = runs + 1
    /\ stats' = EmptyStats
    /\ lock' = "free"
    /\ main' = StartMain
    /\ task' = [k \in Keys |-> IdleTask]
    /\ h' = [h EXCEPT !.simCalls = {}, !.simRaised = {}, !.catRaised = {},
                      !.pend0 = {}, !.det0 = {}, !.simStarted = FALSE,
                      !.stored = {}, !.dispatched = {}, !.redispatched = {},
                      !.pendAtKill = stats[SIM_PENDING], !.doneAtKill = stats[SIM_DONE],
                      !.crashed = @ \/ crash]
    /\ UNCHANGED <<runner, catalogue, files, present, apps, fails, wfails>>

\* the process is killed at any point of a run, and started again
Kill ==
    /\ main.pc \notin {"start", "done", "aborted"}
    /\ Restarted(TRUE)

\* the process has ended (main returned, or an exception left it) and is run again
Rerun ==
    /\ main.pc \in {"done", "aborted"}
    /\ Restarted(FALSE)

Next ==
    \/ MainLoad
    \/ MainCategories
    \/ MainCatLoop
    \/ MainCatWait
    \/ MainCatCollect
    \/ MainSimWhile
    \/ MainSimWait
    \/ MainSimSubmit
    \/ MainSimAbort
    \/ MainSimCollect
    \/ MainSetStat
    \/ MainSimRemove
    \/ \E k \in Cats : TaskCatItems(k) \/ TaskCatClusters(k) \/ TaskCatCluster(k)
    \/ \E k \in Keys : TaskSimCall(k) \/ TaskFetch(k) \/ TaskSaveFile(k) \/ TaskSetStat(k)
    \/ Kill
    \/ Rerun

Spec == Init /\ [][Next]_vars

\* one run of main(), from an empty ledger, with no kill and no rerun
NextRun ==
    \/ MainLoad
    \/ MainCategories
    \/ MainCatLoop
    \/ MainCatWait
    \/ MainCatCollect
    \/ MainSimWhile
    \/ MainSimWait
    \/ MainSimSubmit
    \/ MainSimAbort
    \/ MainSimCollect
    \/ MainSetStat
    \/ MainSimRemove
    \/ \E k \in Cats : TaskCatItems(k) \/ TaskCatClusters(k) \/ TaskCatCluster(k)
    \/ \E k \in Keys : TaskSimCall(k) \/ TaskFetch(k) \/ TaskSaveFile(k) \/ TaskSetStat(k)

SpecRun == Init /\ [][NextRun]_vars

\* one run of main() followed by the developer stage
NextDev ==
    \/ NextRun
    \/ MainDevelopers
    \/ MainDevWhile
    \/ MainDevWait
    \/ \E d \in Devs : TaskDevList(d)

SpecDev == Init /\ [][NextDev]_vars


\* ------------------------------------------------- the ledger store alone
\* The store driven directly: load_stats at the start of a process, then any
\* sequence of set_stat calls, with a kill at any point and a rerun after any call.
StoreKinds == {DETAILS, SIM_PENDING}

StoreIds == {"a", "b"}

\* load_stats() of a process that then only uses the store
StoreLoad ==
    /\ main.pc = "start"
    /\ Commit(load_stats(Store))
    /\ main' = [main EXCEPT !.pc = "loaded"]
    /\ UNCHANGED <<runner, catalogue, apps, task, runs, fails, wfails, h>>

\* set_stat(kind, info): its first step
StoreSetStatBegin ==
    /\ main.pc \in {"loaded", "ready", "raised"}
    /\ UNCHANGED <<runner, catalogue, apps, task, runs, fails>>
    /\ \E kind \in StoreKinds, info \in StoreIds :
        /\ CanStep(kind, info, 0)
        /\ \E fail \in WriteFails(kind, info, 0) :
            LET r == set_stat(Store, "main", kind, info, 0, fail)
            IN  /\ StoreStep(r, kind, info, fail)
                /\ main' = [main EXCEPT !.kind = kind, !.cur = info,
                       !.pc = CASE r.res = "mid" -> "adding"
                                [] r.res = "exc" -> "raised"
                                [] OTHER -> "ready"]

\* set_stat(kind, info): its second step
StoreSetStatEnd ==
    /\ main.pc = "adding"
    /\ UNCHANGED <<runner, catalogue, apps, task, runs, fails>>
    /\ \E fail \in WriteFails(main.kind, main.cur, 1) :
        LET r == set_stat(Store, "main", main.kind, main.cur, 1, fail)
        IN  /\ StoreStep(r, main.kind, main.cur, fail)
            /\ main' = [main EXCEPT !.pc = IF r.res = "exc" THEN "raised" ELSE "ready"]

\* the process is killed at any point, and started again
StoreKill ==
    /\ main.pc # "start"
    /\ Restarted(TRUE)

\* the process ends after a call that returned, and is run again
StoreRerun ==
    /\ main.pc \in {"loaded", "ready"}
    /\ Restarted(FALSE)

StoreNext ==
    \/ StoreLoad
    \/ StoreSetStatBegin
    \/ StoreSetStatEnd
    \/ StoreKill
    \/ StoreRerun

SpecStore == Init /\ [][StoreNext]_vars


\* ------------------------------------------------------------------ claims
\* a run that no kill, rerun or failed durable write has touched
FirstCleanRun == runs = 0 /\ wfails = 0

\* C1: similar-stage failure isolation. When the similar stage has run to its end
\* (a first run, no failed write), an id whose similar-list call raised is still in
\* similar-pending and not in similar-done, and every other id that was expanded is
\* in similar-done.
C1_SimilarFailureIsolated ==
    (FirstCleanRun /\ main.pc = "done") =>
        /\ \A x \in h.simRaised : x \in stats[SIM_PENDING] /\ x \notin stats[SIM_DONE]
        /\ \A x \in h.simCalls \ h.simRaised : x \in stats[SIM_DONE]

\* C2: a category is in categories-done only after its item list and the lists of
\* all its clusters have gone through detail-fetch, and a category with a listing
\* call that raised in this run is not in categories-done.
C2_CategoryDoneOnlyWhenRouted ==
    wfails = 0 =>
        /\ \A c \in Cats \cap stats[CAT_DONE] : c \in h.routed
        /\ \A c \in h.catRaised : c \notin stats[CAT_DONE]

\* C3: for the similar and the developer relation the pending set and the done set
\* are disjoint, in memory and as reloaded by load_stats. Stated outside the move of
\* one id from pending to done, and for runs without a failed call or write.
C3_PendingDoneDisjoint ==
    (wfails = 0 /\ fails = 0 /\ main.pc \notin {"sim_mark", "sim_remove"}) =>
        /\ stats[SIM_PENDING] \cap stats[SIM_DONE] = {}
        /\ stats[DEV_PENDING] \cap stats[DEV_DONE] = {}

\* C4: detail records are write-once: no id is fetched, and no detail record is
\* written, while the id is in details-known.
C4_DetailWriteOnce ==
    wfails = 0 => (h.refetch = {} /\ h.rewrite = {})

\* C5: resumability. After a kill with similar-pending = P and similar-done = D in
\* memory (no failed call or write), the reloaded pending set holds no id of D, the
\* similar-list call is never issued for an id of D, and a run that reaches its end
\* has issued it for every id of P.
C5_ResumeExactlyPending ==
    (h.crashed /\ wfails = 0 /\ fails = 0) =>
        /\ main.pc = "cat_list" => stats[SIM_PENDING] \cap h.doneAtKill = {}
        /\ h.simCalls \cap h.doneAtKill = {}
        /\ main.pc = "done" => h.pendAtKill \subseteq h.simCalls

\* C6: crash recovery of a named set. What load_stats reconstructs after a kill
\* contains every id set_stat has returned for, and no id that set_stat was never
\* called with. (The id of a call the kill interrupted may be in it or not, and the
\* empty string an empty line reloads as is not counted.)
C6_CrashRecovery ==
    (h.crashed /\ wfails = 0 /\ main.pc = "loaded") =>
        \A k \in StoreKinds :
            h.returned[k] \subseteq stats[k] /\ stats[k] \ {""} \subseteq h.attempted[k]

\* C7: round trip without a crash. After any sequence of successful set_stat calls
\* and a rerun of the process, load_stats yields for each kind exactly the ids that
\* were added.
C7_RoundTrip ==
    (~h.crashed /\ wfails = 0 /\ main.pc = "loaded") =>
        \A k \in StoreKinds : stats[k] = h.returned[k]

\* C8: a set_stat whose durable write raised leaves the id out of the in-memory set.
C8_FailedAddNotInMemory ==
    (main.pc = "raised" /\ wfails = 1) => main.cur \notin stats[main.kind]

\* C9: details-known never shrinks, within a run and across a restart with reload,
\* and every id in it has a detail record on disk: once load_stats has run, every id
\* that set_stat('details-checked', id) has returned for is in the set, and every id
\* of the set has a record. (No failed write; the empty string an empty line reloads
\* as is not counted.)
C9_DetailsMonotoneAndStored ==
    wfails = 0 =>
        /\ stats[DETAILS] \ {""} \subseteq apps
        /\ main.pc # "start" => h.returned[DETAILS] \subseteq stats[DETAILS]

\* C10: transitive closure of the similar stage. In a first run with no failing
\* call, no omitted detail and no failed write: if A was in similar-pending when
\* the stage began, B is in A's similar list and C in B's, both unknown then, the
\* end of the stage finds A, B and C in details-known.
C10_TransitiveClosure ==
    (FirstCleanRun /\ fails = 0 /\ main.pc \in {"done", "aborted"}) =>
        \A A \in h.pend0 :
            \A B \in Range(similar(catalogue, A)) \ h.det0 :
                \A C \in Range(similar(catalogue, B)) \ h.det0 :
                    {A, B, C} \subseteq stats[DETAILS]

\* C11: from an empty ledger and with no failure, the catalogue with one category G
\* whose one cluster lists a and b, where the similar list of a is c, ends one run of
\* main() with details-known = {a, b, c}, categories-done = {G}, similar-done
\* holding a, b and c, similar-pending empty, and exactly the three records a, b, c.
ScenarioEnd ==
    /\ stats[DETAILS] = {"a", "b", "c"}
    /\ stats[CAT_DONE] = {"G"}
    /\ {"a", "b", "c"} \subseteq stats[SIM_DONE]
    /\ stats[SIM_PENDING] = {}
    /\ apps = {"a", "b", "c"}

C11_EndToEndScenario ==
    (catalogue = "scenario" /\ FirstCleanRun /\ fails = 0 /\ main.pc \in {"done", "aborted"})
        => ScenarioEnd

\* C12: no single failure aborts the run, in either entry point: when a listing call
\* raises for one category, the other categories are still processed and the run
\* goes on to the similar stage.
C12_CategoryFailureIsolated ==
    (FirstCleanRun /\ h.catRaised # {} /\ main.pc \in {"done", "aborted"})
        => /\ h.simStarted
           /\ \A c \in Range(categories(catalogue)) : c \in h.catRaised \cup h.routed

\* the ids the category stage lists, and the ids reachable from them by similar lists
CatApps(cg) ==
    UNION {Range(category_items(cg, c)) : c \in Range(categories(cg))}
    \cup UNION {Range(cluster_items(cg, k)) :
                 k \in UNION {Range(category_clusters(cg, c)) : c \in Range(categories(cg))}}

RECURSIVE SimilarClosure(_, _)
SimilarClosure(cg, S) ==
    LET T == S \cup UNION {Range(similar(cg, x)) : x \in S}
    IN  IF T = S THEN S ELSE SimilarClosure(cg, T)

DevelopersOf(S) == {developer_id(x) : x \in S} \ {""}

\* C13: for a fixed catalogue and no failure, every ordering of the tasks of a stage
\* ends the stage with the same ledger: the category stage with what the categories
\* list, the similar stage with the closure of that under similar lists.
C13_TaskOrderIndependence ==
    (FirstCleanRun /\ fails = 0 /\ h.simStarted)
        => /\ h.det0 = CatApps(catalogue)
           /\ h.pend0 = CatApps(catalogue)
           /\ main.pc \in {"done", "aborted"}
                => LET all == SimilarClosure(catalogue, CatApps(catalogue))
                   IN  /\ stats[DETAILS] = all
                       /\ stats[SIM_PENDING] = {}
                       /\ stats[SIM_DONE] = all
                       /\ stats[DEV_PENDING] = DevelopersOf(all)
                       /\ stats[CAT_DONE] = Range(categories(catalogue))

\* C14: detail-fetch is idempotent within a run: a call of get_and_save_app_details
\* made after an earlier call fetched and stored an id passes that id to no fetch,
\* and a call left with nothing to fetch writes no record and changes no ledger set.
C14_DetailFetchIdempotent ==
    [][\A k \in Keys :
        /\ (task[k].pc # "fetch" /\ task'[k].pc = "fetch")
              => Range(task'[k].todo) \cap h.stored = {}
        /\ (task[k].pc = "fetch" /\ task[k].todo = <<>> /\ task'[k] # task[k] /\ runs' = runs)
              => (stats' = stats /\ files' = files /\ apps' = apps)]_vars

\* a second call on a stored id has passed its filter with nothing left to fetch
C14_Witness ==
    /\ catalogue = "chain"
    /\ task["G"].pc = "fetch"
    /\ task["G"].ret = "cat_cluster"
    /\ task["G"].todo = <<>>
    /\ "a" \in h.stored

\* C15: the threaded similar stage builds its batch from a snapshot: while the batch
\* of a pass is being built, the set that is iterated is what similar-pending was
\* when the pass began (the ids already submitted and the ids still to submit), and
\* the iteration never fails.
C15_SnapshotBeforeDispatch ==
    /\ (runner = "thr" /\ main.pc = "sim_submit")
          => stats[SIM_PENDING] = main.left \cup main.sub
    /\ main.pc # "sim_abort"

\* C16: in the threaded runner every mutation of a named set happens while stats_lock
\* is held by the thread that mutates: the main thread holds the lock when it is at
\* the removal of an id from similar-pending, and it is never at that removal while
\* a worker is inside its own locked update of the same set.
C16_SerializedLedgerMutation ==
    (runner = "thr" /\ main.pc = "sim_remove")
        => /\ lock = "main"
           /\ \A k \in Keys : ~(task[k].pc = "save_sim" /\ task[k].ph = 1)

\* C17: a developer id is added to developers-done only after that developer's apps
\* were fetched and routed through save; if the developer listing call raises, the
\* developer id is not in developers-done and is still in developers-pending.
C17_DeveloperDoneAfterExpansion ==
    /\ \A d \in Devs : d \in stats[DEV_DONE] => d \in h.devRouted
    /\ \A d \in h.devRaised : d \notin stats[DEV_DONE] /\ d \in stats[DEV_PENDING]

\* where the main thread is while get_similar_apps runs
SimilarStagePcs ==
    {"sim_while", "sim_wait", "sim_submit", "sim_abort", "sim_collect", "sim_mark",
     "sim_remove"}

\* the failures so far are of the similar stage: no category listing raised, and the
\* only durable write that failed, if any, is one of set_stat('similars-checked', id)
SimilarStageFailuresOnly ==
    /\ h.catRaised = {}
    /\ wfails = 0 \/ h.attempted[SIM_DONE] # h.returned[SIM_DONE]

\* C18: the similar stage terminates, also when the expansion of an id or the ledger
\* update that moves it to similar-done fails: no id is dispatched again within the
\* same run, and the stage is never left with no step to take.
C18_SimilarStageTerminates ==
    SimilarStageFailuresOnly
        => /\ h.redispatched = {}
           /\ main.pc \in SimilarStagePcs => ENABLED NextRun

NoRepeat(seq) == \A i, j \in 1..Len(seq) : i # j => seq[i] # seq[j]

\* C19: every call of multi_futures_app_request receives a list with no repeated id
\* and no id that is in details-known, whatever the candidate list was.
C19_FetchArgumentsDeduplicated ==
    \A k \in Keys : task[k].pc = "fetch"
        => /\ NoRepeat(task[k].todo)
           /\ Range(task[k].todo) \cap stats[DETAILS] = {}

\* C20: no similar expansion task is started while a category task is in flight: when
\* the main thread is in get_similar_apps, or a similar task exists, every category
\* task has finished.
C20_StageOrdering ==
    (main.pc \in SimilarStagePcs \/ \E x \in Apps \cup {""} : task[x].pc # "idle")
        => \A c \in Cats : task[c].pc \in {"idle", "fin", "exc"}

\* a similar task of the threaded runner is running, after both category tasks ran
C20_Witness ==
    /\ runner = "thr"
    /\ catalogue = "chain"
    /\ task["a"].pc = "sim_call"
    /\ task["G"].pc = "fin"
    /\ task["H"].pc = "fin"

\* the thread `who` is between the two steps of a set_stat call
InsideSetStat(who) ==
    IF who = "main" THEN main.pc \in {"cat_mark", "sim_mark"} /\ main.ph = 1
    ELSE who \in Keys /\ task[who].ph = 1
         /\ task[who].pc \in {"save_det", "save_sim", "save_dev", "cat_mark", "dev_mark"}

\* C21: in the threaded runner stats_lock is never left held by a finished set_stat
\* call: whenever the lock is held, the thread that holds it is inside set_stat, also
\* after a call whose rewrite of the set raised.
C21_LockNeverLeftHeld ==
    (runner = "thr" /\ lock # "free") => InsideSetStat(lock)

\* every id of details-known is in similar-pending or in similar-done
FrontierComplete ==
    (stats[DETAILS] \ {""}) \subseteq (stats[SIM_PENDING] \cup stats[SIM_DONE])

\* C22: frontier completeness: with no durable write failing and no external call
\* raising, every id in details-known is in similar-pending or similar-done when no
\* task is running and the main thread is at a loop test, and right after the
\* load_stats of a run that follows a kill at any point.
C22_FrontierComplete ==
    (wfails = 0 /\ fails = 0)
        => /\ (/\ \A k \in Keys : task[k].pc \in {"idle", "fin", "exc"}
               /\ main.pc \in {"cat_loop", "cat_collect", "sim_while", "sim_collect", "done"}
               /\ runs = 0)
              => FrontierComplete
           /\ (main.pc = "cat_list" /\ h.crashed) => FrontierComplete
====
